---- MODULE Spec2Model ----
(***************************************************************************)
(* HybridCRMGenerator (data_generator.py): the CRM data generation         *)
(* pipeline - leads, group assignment, contact events, funnel stages,      *)
(* outcomes - as a state machine.                                          *)
(*                                                                         *)
(* Time is counted in ticks of half a day from 2024-01-01 00:00 (tick 0).  *)
(* A datetime is a tick, a date (datetime.date, or a '%Y-%m-%d' string) is *)
(* the record [day |-> d], a '%Y-%m-%d %H:%M:%S' string is the record      *)
(* [day |-> d, tod |-> t].  A seeded random draw is a choice among the     *)
(* values the draw can return; uuid.uuid4() is not seeded, it returns a    *)
(* fresh value that depends on the entropy of the run.  A run is short     *)
(* with respect to a tick: every datetime.now() of a run reads one tick.   *)
(*                                                                         *)
(* The stages of a run are also specified one by one (SpecGroup,           *)
(* SpecContacts, SpecFunnel, SpecOutcomes, SpecFaults), each from the      *)
(* frames the stages before it can return; SpecPipeline follows a run of   *)
(* PipelineLeads leads from its first statement to its return.             *)
(***************************************************************************)
EXTENDS Integers, Sequences, FiniteSets, TLC

VARIABLES
    pc,                  \* position of the run in generate_complete_dataset
    now,                 \* datetime.now() of the run
    entropy,             \* the operating system entropy uuid4 reads in this run
    uuid_count,          \* number of uuid4() calls made so far
    total_leads,         \* self.total_leads
    leads_df,            \* the leads stream
    contact_events_df,   \* the contact events stream
    contacted_lead_ids,  \* the contacted-lead set
    funnel_stages_df,    \* the funnel stages stream
    outcomes_df,         \* the outcomes stream
    row,                 \* index of the row the running loop is at
    inner,               \* state of the inner loop of the running stage
    drawn,               \* funnel: the <<lead_id, stage>> draws made so far
    pass_df,             \* fault injection: the frame df the running pass works on
    faults,              \* fault injection: rows sampled so far
    rerun                \* which run this is, the seeded draws and the leads of the first

vars == <<pc, now, entropy, uuid_count, total_leads, leads_df, contact_events_df,
          contacted_lead_ids, funnel_stages_df, outcomes_df, row, inner, drawn,
          pass_df, faults, rerun>>

----------------------------------------------------------------------------
(* Bounds of the model *)

TicksPerDay == 2       \* ticks of the clock of the model in a day
MaxLeads == 2          \* population size of a modelled run
NumEntropy == 2        \* distinct entropy values a run can get
MaxDelay == 1          \* largest inter-stage delay, in ticks
MaxContacts == 1       \* largest Poisson draw of the number of contacts
NearHorizon == 1       \* a run made this many ticks after the test start
FarHorizonDays == 31   \* a run made this many days after the test start
MaxFaults == 2         \* rows of the modelled streams the fault injection samples
ExtraDaysWorked == 1   \* days_worked draws modelled above the minimum
PipelineLeads == 1     \* population size of a run followed from end to end

----------------------------------------------------------------------------
(* Program constants *)

TestStartDay == 152                         \* 2024-06-01
test_start_date == TestStartDay * TicksPerDay
data_start_date == 0                        \* 2024-01-01
MinDaysWorked == 30
MaxDaysWorked == 120
BaseDeal == 25000
MinDeal == 5000

funnel_walk == <<"Contacted", "Qualified", "Demo Scheduled", "Proposal Sent", "Closed Won">>

NoneStr == "None"

\* no frame is being worked on
NoFrame == [rows |-> <<>>, same_object |-> FALSE]

----------------------------------------------------------------------------
(* Conversions between datetimes, dates and their strings *)

\* datetime.strftime('%Y-%m-%d %H:%M:%S')
strftime(t) == [day |-> t \div TicksPerDay, tod |-> t % TicksPerDay]

\* datetime.strftime('%Y-%m-%d') and datetime.date()
date(t) == [day |-> t \div TicksPerDay]

\* pd.to_datetime of a date, a date string or a datetime string
to_datetime(s) ==
    s.day * TicksPerDay + (IF "tod" \in DOMAIN s THEN s.tod ELSE 0)

\* datetime + timedelta(days=n)
plus_days(t, n) == t + n * TicksPerDay

\* timedelta.days of (a - b): whole days, rounded down
days_between(a, b) == (a - b) \div TicksPerDay

Max(a, b) == IF a >= b THEN a ELSE b

\* uuid.uuid4(): the n-th identifier of a run with entropy e
uuid4(e, n) == <<e, n>>

----------------------------------------------------------------------------
(* Values the seeded draws are modelled over *)

\* date_time_between and the weekday shift: the last tick before the test
\* start, the test start and the tick after it
CreatedTimes == {test_start_date - 1, test_start_date, test_start_date + 1}
CompanySizes == {"Small", "Enterprise"}
Phones == {"phone", NoneStr}
Groups == {"control", "test"}
NowTimes == {test_start_date + NearHorizon, plus_days(test_start_date, FarHorizonDays)}
Entropies == 1 .. NumEntropy
Delays == 0 .. MaxDelay

----------------------------------------------------------------------------
(* _generate_leads *)

\* the lead record built by one iteration of the loop; contact_email,
\* industry and source_channel, which no later statement reads or writes, are
\* left out, and the Faker and lognormal values are one value each
NewLead(id, created_at, company_size, phone) ==
    [lead_id |-> id,
     company_name |-> "company",
     contact_phone |-> phone,
     region |-> "region",
     company_size |-> company_size,
     created_at |-> strftime(created_at),
     annual_revenue |-> 1]

\* what the seeded generators (Faker, random, np.random) return for the k-th
\* lead: <<created_at, company_size, contact_phone>>.  The seed fixes the
\* sequence, so a second run with the same seed draws what the first one drew
SeededLeadDraws(k) ==
    IF rerun.run = 1 THEN CreatedTimes \X CompanySizes \X Phones
    ELSE {rerun.seeded[k]}

\* one iteration of the loop
GenerateLead ==
    /\ pc = "generate_leads"
    /\ \E d \in SeededLeadDraws(Len(leads_df) + 1) :
          /\ leads_df' = Append(leads_df,
                                NewLead(uuid4(entropy, uuid_count + 1), d[1], d[2], d[3]))
          /\ rerun' = IF rerun.run = 1 THEN [rerun EXCEPT !.seeded = Append(@, d)]
                      ELSE rerun
    /\ uuid_count' = uuid_count + 1
    /\ pc' = IF Len(leads_df) + 1 = total_leads THEN "add_test_group" ELSE pc
    /\ UNCHANGED <<now, entropy, total_leads, contact_events_df, contacted_lead_ids,
                   funnel_stages_df, outcomes_df, row, inner, drawn, pass_df, faults>>

\* HybridCRMGenerator(seed=42).generate_complete_dataset() is called again, in a
\* new process: the seeded generators start over, the entropy and the clock
\* are those of the new process
Rerun ==
    /\ pc = "add_test_group"
    /\ rerun.run = 1
    /\ rerun' = [rerun EXCEPT !.run = 2, !.first = leads_df]
    /\ pc' = "generate_leads"
    /\ entropy' \in Entropies
    /\ now' \in {t \in NowTimes : t >= now}
    /\ uuid_count' = 0
    /\ leads_df' = <<>>
    /\ UNCHANGED <<total_leads, contact_events_df, contacted_lead_ids,
                   funnel_stages_df, outcomes_df, row, inner, drawn, pass_df, faults>>

----------------------------------------------------------------------------
(* _add_test_group_logic *)

\* the mask with data_start_date in the place of test_start_date
InTestPeriodFromDataStart(lead) ==
    to_datetime(lead.created_at) >= data_start_date

\* pd.to_datetime(leads_df['created_at']) >= self.test_start_date
InTestPeriod(lead) ==
    to_datetime(lead.created_at) >= test_start_date

RECURSIVE SelectSeq2(_, _)
\* df[mask]: the rows of s that are (not) in the test period
SelectSeq2(s, keep_test_period) ==
    IF s = <<>> THEN <<>>
    ELSE (IF InTestPeriod(Head(s)) = keep_test_period THEN <<Head(s)>> ELSE <<>>)
         \o SelectSeq2(Tail(s), keep_test_period)

WithGroup(lead, g) ==
    [lead_id |-> lead.lead_id,
     company_name |-> lead.company_name,
     contact_phone |-> lead.contact_phone,
     region |-> lead.region,
     company_size |-> lead.company_size,
     created_at |-> lead.created_at,
     annual_revenue |-> lead.annual_revenue,
     group |-> g,
     assigned_at |-> date(to_datetime(lead.created_at))]

\* the frame of the test-period leads alone, without the concatenation
TestPeriodLeadsOnly(df, random_assignment) ==
    LET test_period_leads == SelectSeq2(df, TRUE)
    IN [k \in 1 .. Len(test_period_leads) |->
           WithGroup(test_period_leads[k], random_assignment[k])]

\* the frame returned for the input frame df and the draws random_assignment
add_test_group_logic(df, random_assignment) ==
    LET test_period_leads == SelectSeq2(df, TRUE)
        pre_test_leads == SelectSeq2(df, FALSE)
    IN [k \in 1 .. Len(pre_test_leads) |-> WithGroup(pre_test_leads[k], "control")]
       \o [k \in 1 .. Len(test_period_leads) |->
              WithGroup(test_period_leads[k], random_assignment[k])]

AddTestGroupLogic ==
    /\ pc = "add_test_group"
    /\ \E random_assignment \in [1 .. Len(SelectSeq2(leads_df, TRUE)) -> Groups] :
          leads_df' = add_test_group_logic(leads_df, random_assignment)
    /\ pc' = "contact_events"
    /\ row' = 1
    /\ UNCHANGED <<now, entropy, uuid_count, total_leads, contact_events_df,
                   contacted_lead_ids, funnel_stages_df, outcomes_df, inner, drawn,
                   pass_df, faults, rerun>>

----------------------------------------------------------------------------
(* _generate_contact_events *)

contact_types == {"Email", "Phone Call", "LinkedIn Message", "Demo Request"}
first_contact_types == {"Email", "Phone Call"}
positive_responses == {"Responded", "Interested", "Callback Requested"}

\* offsets that start a day before the creation of the lead
DaysOffsetsFromDayBefore(contact_num) ==
    IF contact_num = 0 THEN -1 .. 2
    ELSE IF contact_num = 1 THEN 1 .. 7
    ELSE 7 .. 30

\* random.randint range of days_offset for the contact_num-th contact
DaysOffsets(contact_num) ==
    IF contact_num = 0 THEN 0 .. 2
    ELSE IF contact_num = 1 THEN 1 .. 7
    ELSE 7 .. 30

\* the event record of a contact
NewEvent(id, lead, contact_date, contact_type, response_type) ==
    [event_id |-> id,
     lead_id |-> lead.lead_id,
     event_date |-> date(contact_date),
     contact_type |-> contact_type,
     response_type |-> response_type]

\* the stage that follows the contact events of the last lead
AfterContacts(r) ==
    IF r > Len(leads_df) THEN "funnel_stages" ELSE "contact_events"

\* the row the loop goes on with; after the last lead, the first row, where
\* the loop over the leads of _generate_funnel_stages starts
RowAfterContacts(r) ==
    IF r > Len(leads_df) THEN 1 ELSE r

\* one iteration of the loop over the leads, up to the loop over the contacts
ContactLead ==
    /\ pc = "contact_events"
    /\ inner.at = "idle"
    /\ row <= Len(leads_df)
    /\ \E contacted \in BOOLEAN, num_contacts \in 1 .. MaxContacts :
          IF contacted
          THEN /\ contacted_lead_ids' = contacted_lead_ids \cup {leads_df[row].lead_id}
               /\ inner' = [at |-> "contacts", contact_num |-> 0,
                            num_contacts |-> num_contacts]
               /\ UNCHANGED <<row, pc>>
          ELSE /\ row' = RowAfterContacts(row + 1)
               /\ pc' = AfterContacts(row + 1)
               /\ UNCHANGED <<contacted_lead_ids, inner>>
    /\ UNCHANGED <<now, entropy, uuid_count, total_leads, leads_df, contact_events_df,
                   funnel_stages_df, outcomes_df, drawn, pass_df, faults, rerun>>

\* one iteration of the loop over the contacts of a contacted lead
ContactEvent ==
    /\ pc = "contact_events"
    /\ inner.at = "contacts"
    /\ LET lead == leads_df[row]
           lead_start == to_datetime(lead.created_at)
           last == inner.contact_num + 1 = inner.num_contacts
       IN /\ \E days_offset \in DaysOffsets(inner.contact_num),
                contact_type \in (IF inner.contact_num = 0 THEN first_contact_types
                                  ELSE contact_types),
                response_type \in positive_responses \cup {"No Response"} :
                LET contact_date == plus_days(lead_start, days_offset)
                IN IF contact_date > now
                   THEN UNCHANGED <<contact_events_df, uuid_count>>
                   ELSE /\ contact_events_df' =
                              Append(contact_events_df,
                                     NewEvent(uuid4(entropy, uuid_count + 1), lead,
                                              contact_date, contact_type, response_type))
                        /\ uuid_count' = uuid_count + 1
          /\ IF last
             THEN /\ inner' = [at |-> "idle"]
                  /\ row' = RowAfterContacts(row + 1)
                  /\ pc' = AfterContacts(row + 1)
             ELSE /\ inner' = [inner EXCEPT !.contact_num = @ + 1]
                  /\ UNCHANGED <<row, pc>>
    /\ UNCHANGED <<now, entropy, total_leads, leads_df, contacted_lead_ids,
                   funnel_stages_df, outcomes_df, drawn, pass_df, faults, rerun>>

----------------------------------------------------------------------------
(* _generate_funnel_stages *)

\* outcomes of random.random() < stage_probabilities[stage]: a probability
\* of 1.0 never fails, random.random() being below 1
StageDraws(stage) == IF stage = "Contacted" THEN {TRUE} ELSE BOOLEAN

\* the stage that follows the funnel walk of the last lead
AfterFunnel(r) ==
    IF r > Len(leads_df) THEN "outcomes" ELSE "funnel_stages"

\* the funnel walk made for every lead
IsContactedAnyLead(lead, ids) == TRUE

\* not (lead['lead_id'] not in contacted_lead_ids)
IsContacted(lead, ids) == lead.lead_id \in ids

\* one iteration of the loop over the leads, up to the loop over the stages
FunnelLead ==
    /\ pc = "funnel_stages"
    /\ inner.at = "idle"
    /\ row <= Len(leads_df)
    /\ LET lead == leads_df[row]
       IN IF ~IsContacted(lead, contacted_lead_ids)
          THEN /\ row' = row + 1
               /\ pc' = AfterFunnel(row + 1)
               /\ UNCHANGED inner
          ELSE \E entered \in BOOLEAN :
                  IF entered
                  THEN /\ inner' = [at |-> "walk", stage_order |-> 1,
                                   current_date |-> to_datetime(lead.created_at)]
                       /\ UNCHANGED <<row, pc>>
                  ELSE /\ row' = row + 1
                       /\ pc' = AfterFunnel(row + 1)
                       /\ UNCHANGED inner
    /\ UNCHANGED <<now, entropy, uuid_count, total_leads, leads_df, contact_events_df,
                   contacted_lead_ids, funnel_stages_df, outcomes_df, drawn, pass_df, faults, rerun>>

\* the stage record with the position of the enumeration as its order
NewStageOrderFromOne(id, lead, stage_order, stage_date) ==
    [stage_id |-> id,
     lead_id |-> lead.lead_id,
     stage_name |-> funnel_walk[stage_order],
     stage_date |-> date(stage_date),
     stage_order |-> stage_order]

\* the stage record of the stage_order-th stage of the walk
NewStage(id, lead, stage_order, stage_date) ==
    [stage_id |-> id,
     lead_id |-> lead.lead_id,
     stage_name |-> funnel_walk[stage_order],
     stage_date |-> date(stage_date),
     stage_order |-> stage_order + 1]

\* what the walk does after a stage whose draw succeeded: the loop goes on
\* to the next stage, whether or not the stage was emitted
AfterStage(in, emitted) ==
    IF in.stage_order = Len(funnel_walk)
    THEN [at |-> "idle"]
    ELSE [in EXCEPT !.stage_order = @ + 1]

\* one iteration of the loop over the stages of a lead that entered the funnel
FunnelStage ==
    /\ pc = "funnel_stages"
    /\ inner.at = "walk"
    /\ LET lead == leads_df[row]
           stage == funnel_walk[inner.stage_order]
       IN /\ drawn' = drawn \cup {<<lead.lead_id, stage>>}
          /\ \E success \in StageDraws(stage), days_to_stage \in Delays :
                IF success
                THEN LET stage_date == inner.current_date + days_to_stage
                         emitted == stage_date <= now
                     IN /\ IF emitted
                           THEN /\ funnel_stages_df' =
                                      Append(funnel_stages_df,
                                             NewStage(uuid4(entropy, uuid_count + 1), lead,
                                                      inner.stage_order, stage_date))
                                /\ uuid_count' = uuid_count + 1
                           ELSE UNCHANGED <<funnel_stages_df, uuid_count>>
                        /\ inner' = AfterStage(inner, emitted)
                ELSE /\ inner' = [at |-> "idle"]
                     /\ UNCHANGED <<funnel_stages_df, uuid_count>>
          /\ row' = IF inner'.at = "idle" THEN row + 1 ELSE row
          /\ pc' = IF inner'.at = "idle" THEN AfterFunnel(row + 1) ELSE pc
    /\ UNCHANGED <<now, entropy, total_leads, leads_df, contact_events_df,
                   contacted_lead_ids, outcomes_df, pass_df, faults, rerun>>

----------------------------------------------------------------------------
(* _generate_outcomes *)

RECURSIVE Unique(_)
\* Series.unique(): the distinct values, in order of first appearance
Unique(s) ==
    IF s = <<>> THEN <<>>
    ELSE LET rest == Unique(SubSeq(s, 1, Len(s) - 1))
             last == s[Len(s)]
         IN IF \E k \in 1 .. Len(rest) : rest[k] = last THEN rest
            ELSE Append(rest, last)

RECURSIVE ClosedWonRows(_)
\* funnel_stages_df[funnel_stages_df['stage_name'] == 'Closed Won']
ClosedWonRows(df) ==
    IF df = <<>> THEN <<>>
    ELSE (IF Head(df).stage_name = "Closed Won" THEN <<Head(df)>> ELSE <<>>)
         \o ClosedWonRows(Tail(df))

LeadIdColumn(df) == [k \in 1 .. Len(df) |-> df[k].lead_id]

Range(s) == {s[k] : k \in 1 .. Len(s)}

\* df[...].iloc[0]: the first row of df that satisfies the test
FirstLead(df, id) ==
    df[CHOOSE k \in 1 .. Len(df) :
           /\ df[k].lead_id = id
           /\ \A j \in 1 .. k - 1 : df[j].lead_id # id]

FirstClosedWon(df, id) ==
    df[CHOOSE k \in 1 .. Len(df) :
           /\ df[k].lead_id = id /\ df[k].stage_name = "Closed Won"
           /\ \A j \in 1 .. k - 1 :
                 ~(df[j].lead_id = id /\ df[j].stage_name = "Closed Won")]

\* size_multipliers of the deal, in tenths
DealSizeMultiplier(company_size) ==
    CASE company_size = "Small" -> 10
      [] company_size = "Medium" -> 15
      [] company_size = "Large" -> 25
      [] company_size = "Enterprise" -> 40
      [] OTHER -> 10

\* np.random.normal(mu, 0.2) in hundredths: the mean and a far low draw
RevenueMultipliers(is_test_group) == {10, IF is_test_group THEN 130 ELSE 100}

\* days_to_close without the minimum
UnclampedDaysToClose(days_to_close) == days_to_close

\* max(1, days_to_close)
ClampDaysToClose(days_to_close) == Max(1, days_to_close)

\* the range of the comment next to the draw, "worked for 1-4 months"
DaysWorkedFromOne == (1 .. 1 + ExtraDaysWorked) \cup {MaxDaysWorked}

\* random.randint(30, 120): the low end and the high end of the range
DaysWorked == (MinDaysWorked .. MinDaysWorked + ExtraDaysWorked) \cup {MaxDaysWorked}

\* the outcome record of a lead that reached 'Closed Won'
ConvertedRecord(id, lead_info, closed_won_stage, revenue_multiplier) ==
    LET lead_start == to_datetime(lead_info.created_at)
        outcome_date == to_datetime(closed_won_stage.stage_date)
        days_to_close == days_between(outcome_date, lead_start)
        base_revenue == (BaseDeal * DealSizeMultiplier(lead_info.company_size)) \div 10
    IN [outcome_id |-> id,
        lead_id |-> lead_info.lead_id,
        converted |-> 1,
        revenue |-> Max(MinDeal, (base_revenue * revenue_multiplier) \div 100),
        outcome_date |-> date(outcome_date),
        days_to_close |-> ClampDaysToClose(days_to_close)]

\* the outcome record of a lead that is formally lost after days_worked days
LostRecord(id, lead_info, days_worked) ==
    [outcome_id |-> id,
     lead_id |-> lead_info.lead_id,
     converted |-> 0,
     revenue |-> 0,
     outcome_date |-> date(plus_days(to_datetime(lead_info.created_at), days_worked)),
     days_to_close |-> days_worked]

\* the start of the handler: the leads that reached 'Closed Won'
OutcomesBegin ==
    /\ pc = "outcomes"
    /\ inner.at = "idle"
    /\ inner' = [at |-> "won", k |-> 1,
                 closed_won_leads |-> Unique(LeadIdColumn(ClosedWonRows(funnel_stages_df)))]
    /\ UNCHANGED <<pc, now, entropy, uuid_count, total_leads, leads_df,
                   contact_events_df, contacted_lead_ids, funnel_stages_df, outcomes_df,
                   row, drawn, pass_df, faults, rerun>>

\* one iteration of the loop over closed_won_leads
ConvertedOutcome ==
    /\ pc = "outcomes"
    /\ inner.at = "won"
    /\ inner.k <= Len(inner.closed_won_leads)
    /\ LET lead_id == inner.closed_won_leads[inner.k]
           lead_info == FirstLead(leads_df, lead_id)
           closed_won_stage == FirstClosedWon(funnel_stages_df, lead_id)
       IN \E revenue_multiplier \in RevenueMultipliers(lead_info.group = "test") :
             outcomes_df' =
                Append(outcomes_df,
                       ConvertedRecord(uuid4(entropy, uuid_count + 1), lead_info,
                                       closed_won_stage, revenue_multiplier))
    /\ uuid_count' = uuid_count + 1
    /\ inner' = [inner EXCEPT !.k = @ + 1]
    /\ UNCHANGED <<pc, now, entropy, total_leads, leads_df, contact_events_df,
                   contacted_lead_ids, funnel_stages_df, row, drawn, pass_df, faults, rerun>>

\* funnel_lead_ids without the set difference
AllFunnelLeads(df, closed_won_leads) == Range(LeadIdColumn(df))

\* funnel_lead_ids - converted_lead_ids_set
FunnelButNotConverted(df, closed_won_leads) ==
    Range(LeadIdColumn(df)) \ Range(closed_won_leads)

\* between the two loops: the leads that entered the funnel and did not close
OutcomesLostBegin ==
    /\ pc = "outcomes"
    /\ inner.at = "won"
    /\ inner.k > Len(inner.closed_won_leads)
    /\ inner' = [at |-> "lost",
                 funnel_but_not_converted |->
                     FunnelButNotConverted(funnel_stages_df, inner.closed_won_leads)]
    /\ UNCHANGED <<pc, now, entropy, uuid_count, total_leads, leads_df,
                   contact_events_df, contacted_lead_ids, funnel_stages_df, outcomes_df,
                   row, drawn, pass_df, faults, rerun>>

\* one iteration of the loop over funnel_but_not_converted, a set of strings:
\* the order of the iteration is any order
LostOutcome ==
    /\ pc = "outcomes"
    /\ inner.at = "lost"
    /\ \E lead_id \in inner.funnel_but_not_converted :
          /\ inner' = [inner EXCEPT !.funnel_but_not_converted = @ \ {lead_id}]
          /\ \E lost \in BOOLEAN, days_worked \in DaysWorked :
                LET lead_info == FirstLead(leads_df, lead_id)
                    lead_start == to_datetime(lead_info.created_at)
                    outcome_date == plus_days(lead_start, days_worked)
                IN IF lost /\ outcome_date <= now
                   THEN /\ outcomes_df' =
                              Append(outcomes_df,
                                     LostRecord(uuid4(entropy, uuid_count + 1), lead_info,
                                                days_worked))
                        /\ uuid_count' = uuid_count + 1
                   ELSE UNCHANGED <<outcomes_df, uuid_count>>
    /\ UNCHANGED <<pc, now, entropy, total_leads, leads_df, contact_events_df,
                   contacted_lead_ids, funnel_stages_df, row, drawn, pass_df, faults, rerun>>

\* the return of the handler
OutcomesReturn ==
    /\ pc = "outcomes"
    /\ inner.at = "lost"
    /\ inner.funnel_but_not_converted = {}
    /\ inner' = [at |-> "idle"]
    /\ pc' = "quality_issues_leads"
    /\ UNCHANGED <<now, entropy, uuid_count, total_leads, leads_df, contact_events_df,
                   contacted_lead_ids, funnel_stages_df, outcomes_df, row, drawn, pass_df, faults, rerun>>

----------------------------------------------------------------------------
(* _introduce_data_quality_issues_leads, _contacts, _funnel, _outcomes *)

passes == <<"leads", "contacts", "funnel", "outcomes">>

QualityPc(pass) ==
    CASE pass = "leads" -> "quality_issues_leads"
      [] pass = "contacts" -> "quality_issues_contacts"
      [] pass = "funnel" -> "quality_issues_funnel"
      [] pass = "outcomes" -> "quality_issues_outcomes"

\* the outcome generation called after the funnel pass
AfterPassThenOutcomes(pass) ==
    CASE pass = "leads" -> "quality_issues_contacts"
      [] pass = "contacts" -> "quality_issues_funnel"
      [] pass = "funnel" -> "outcomes"
      [] pass = "outcomes" -> "save"

\* the statement of generate_complete_dataset that follows the pass
AfterPass(pass) ==
    CASE pass = "leads" -> "quality_issues_contacts"
      [] pass = "contacts" -> "quality_issues_funnel"
      [] pass = "funnel" -> "quality_issues_outcomes"
      [] pass = "outcomes" -> "save"

\* the frame the pass is called with
Stream(pass) ==
    CASE pass = "leads" -> leads_df
      [] pass = "contacts" -> contact_events_df
      [] pass = "funnel" -> funnel_stages_df
      [] pass = "outcomes" -> outcomes_df

\* the number of corruption rules of the pass
NumRules(pass) ==
    CASE pass = "leads" -> 6
      [] pass = "contacts" -> 4
      [] pass = "funnel" -> 4
      [] pass = "outcomes" -> 6

\* a frame that is the object it was made from
SameFrame(rows) == [rows |-> rows, same_object |-> TRUE]

\* df.copy(): a new object with the rows of df
DataFrameCopy(rows) == [rows |-> rows, same_object |-> FALSE]

test_names == {"Test Company Inc", "Delete This Company", "Sample Corp LLC", "Test Data Corp"}
\* contact_phone + an element of extension_formats, for the phone of the model
phones_with_extension == {"phone x123", "phone ext 456", "phone extension 789", "phone x1001"}
\* the dates with 2024 as their year, before the test start
created_at_of_2024 == {[day |-> 14, tod |-> (10 * TicksPerDay) \div 24],
                       [day |-> 50, tod |-> (14 * TicksPerDay) \div 24],
                       [day |-> 69, tod |-> (9 * TicksPerDay) \div 24]}

\* '2025-01-15 10:00:00', '2025-02-20 14:30:00', '2025-03-10 09:15:00'
future_created_at == {[day |-> 380, tod |-> (10 * TicksPerDay) \div 24],
                      [day |-> 416, tod |-> (14 * TicksPerDay) \div 24],
                      [day |-> 434, tod |-> (9 * TicksPerDay) \div 24]}
extreme_annual_revenue == {-500000, 999999999, 50000000, -100000}
\* '2025-02-01', '2025-01-25', '2025-03-15'
future_event_dates == {[day |-> 397], [day |-> 390], [day |-> 439]}
invalid_orders == {-1, 0, 8, 99, -5}
\* '2025-01-30', '2025-02-15'
future_stage_dates == {[day |-> 395], [day |-> 411]}
extreme_revenue == {999999999, 50000000, 2500000}
extreme_days == {800, 1000, 1500, 999}

size_variations(company_size) ==
    CASE company_size = "Small" -> "small"
      [] company_size = "Medium" -> "medium"
      [] company_size = "Large" -> "large"
      [] company_size = "Enterprise" -> "enterprise"
      [] OTHER -> company_size

type_variations(contact_type) ==
    CASE contact_type = "Email" -> {"email", "Email"}
      [] contact_type = "Phone Call" -> {"call", "phone call", "Phone Call"}
      [] contact_type = "LinkedIn Message" -> {"linkedin", "LinkedIn", "LinkedIn Message"}
      [] contact_type = "Demo Request" -> {"demo request"}

name_variations(stage_name) ==
    CASE stage_name = "New" -> {"new lead", "initial", "new"}
      [] stage_name = "Contacted" -> {"contacted"}
      [] stage_name = "Qualified" -> {"qualified", "mql", "marketing qualified"}
      [] stage_name = "Demo Scheduled" -> {"demo", "demo scheduled"}
      [] stage_name = "Proposal Sent" -> {"proposal", "quote", "quote sent"}
      [] stage_name = "Closed Won" -> {"closed won", "won", "closed-won"}
      [] stage_name = "Closed Lost" -> {"closed lost", "lost", "closed-lost"}

\* -abs(x)
NegAbs(x) == IF x >= 0 THEN 0 - x ELSE x

\* the rows a sampled row r can become under a rule of the leads pass
CorruptedLead(rule, r) ==
    CASE rule = 1 -> {[r EXCEPT !.company_name = n] : n \in test_names}
      [] rule = 2 -> {[r EXCEPT !.contact_phone = ph] : ph \in phones_with_extension}
      [] rule = 3 -> {[r EXCEPT !.region = NoneStr]}
      [] rule = 4 -> {[r EXCEPT !.company_size = size_variations(@)]}
      [] rule = 5 -> {[r EXCEPT !.created_at = c] : c \in future_created_at}
      [] rule = 6 -> {[r EXCEPT !.annual_revenue = v] : v \in extreme_annual_revenue}

\* ... of the contacts pass
CorruptedEvent(rule, r) ==
    CASE rule = 1 -> {[r EXCEPT !.response_type = NoneStr]}
      [] rule = 2 -> {[r EXCEPT !.contact_type = t] : t \in type_variations(r.contact_type)}
      [] rule = 3 -> {[r EXCEPT !.event_date = d] : d \in future_event_dates}
      [] rule = 4 -> {[r EXCEPT !.response_type = ""]}

\* ... of the funnel pass
CorruptedStage(rule, r) ==
    CASE rule = 1 -> {[r EXCEPT !.stage_order = o] : o \in invalid_orders}
      [] rule = 2 -> {[r EXCEPT !.stage_name = n] : n \in name_variations(r.stage_name)}
      [] rule = 3 -> {[r EXCEPT !.stage_date = d] : d \in future_stage_dates}
      [] rule = 4 -> {[r EXCEPT !.stage_order = NoneStr]}

\* ... of the outcomes pass
CorruptedOutcome(rule, r) ==
    CASE rule = 1 -> {[r EXCEPT !.revenue = NegAbs(@)]}
      [] rule = 2 -> {[r EXCEPT !.revenue = v] : v \in extreme_revenue}
      [] rule = 3 -> {[r EXCEPT !.days_to_close = NegAbs(@)]}
      [] rule = 4 -> {[r EXCEPT !.revenue = IF r.converted = 1 THEN 0 ELSE 50000]}
      [] rule = 5 -> {[r EXCEPT !.days_to_close = d] : d \in extreme_days}
      [] rule = 6 -> {IF r.converted = 1 THEN [r EXCEPT !.outcome_date = NoneStr] ELSE r}

Corrupted(pass, rule, r) ==
    CASE pass = "leads" -> CorruptedLead(rule, r)
      [] pass = "contacts" -> CorruptedEvent(rule, r)
      [] pass = "funnel" -> CorruptedStage(rule, r)
      [] pass = "outcomes" -> CorruptedOutcome(rule, r)

\* the rows a rule samples from: every row, but for the phone rule of the
\* leads pass, which samples the rows that have a phone
Sampled(pass, rule, rows) ==
    IF pass = "leads" /\ rule = 2
    THEN {k \in 1 .. Len(rows) : rows[k].contact_phone # NoneStr}
    ELSE 1 .. Len(rows)

RECURSIVE CorruptRows(_, _, _, _)
\* the frames that rows can become when the rule is applied to the sample
CorruptRows(rows, sample, pass, rule) ==
    IF sample = {} THEN {rows}
    ELSE LET k == CHOOSE k \in sample : TRUE
         IN UNION {{[fr EXCEPT ![k] = c] : c \in Corrupted(pass, rule, rows[k])} :
                   fr \in CorruptRows(rows, sample \ {k}, pass, rule)}

\* the streams after a write to the frame of the pass: a frame that is the
\* object the pass was given shows the write to the caller
StreamsAfterWrite(pass, frame) ==
    /\ leads_df' = IF frame.same_object /\ pass = "leads" THEN frame.rows ELSE leads_df
    /\ contact_events_df' =
          IF frame.same_object /\ pass = "contacts" THEN frame.rows ELSE contact_events_df
    /\ funnel_stages_df' =
          IF frame.same_object /\ pass = "funnel" THEN frame.rows ELSE funnel_stages_df
    /\ outcomes_df' =
          IF frame.same_object /\ pass = "outcomes" THEN frame.rows ELSE outcomes_df

\* df.sample(frac=...) takes a share of the rows of a stream: over the run,
\* MaxFaults rows of the streams of MaxLeads leads
MaxSampled == (MaxFaults * total_leads) \div MaxLeads

\* df = df.copy()
QualityBegin(pass) ==
    /\ pc = QualityPc(pass)
    /\ inner.at = "idle"
    /\ pass_df' = DataFrameCopy(Stream(pass))
    /\ inner' = [at |-> "rule", rule |-> 1]
    /\ UNCHANGED <<pc, now, entropy, uuid_count, total_leads, leads_df,
                   contact_events_df, contacted_lead_ids, funnel_stages_df, outcomes_df,
                   row, drawn, faults, rerun>>

\* one rule: df.sample(frac=...) and the writes to the sampled rows.  Of the
\* rows of the model the sample holds any, MaxSampled at most over the run
QualityRule(pass) ==
    /\ pc = QualityPc(pass)
    /\ inner.at = "rule"
    /\ inner.rule <= NumRules(pass)
    /\ \E sample \in SUBSET Sampled(pass, inner.rule, pass_df.rows) :
          /\ faults + Cardinality(sample) <= MaxSampled
          /\ faults' = faults + Cardinality(sample)
          /\ \E rows \in CorruptRows(pass_df.rows, sample, pass, inner.rule) :
                /\ pass_df' = [pass_df EXCEPT !.rows = rows]
                /\ StreamsAfterWrite(pass, [pass_df EXCEPT !.rows = rows])
    /\ inner' = [inner EXCEPT !.rule = @ + 1]
    /\ UNCHANGED <<pc, now, entropy, uuid_count, total_leads, contacted_lead_ids,
                   row, drawn, rerun>>

\* return df, and the assignment of the caller
QualityReturn(pass) ==
    /\ pc = QualityPc(pass)
    /\ inner.at = "rule"
    /\ inner.rule > NumRules(pass)
    /\ leads_df' = IF pass = "leads" THEN pass_df.rows ELSE leads_df
    /\ contact_events_df' = IF pass = "contacts" THEN pass_df.rows ELSE contact_events_df
    /\ funnel_stages_df' = IF pass = "funnel" THEN pass_df.rows ELSE funnel_stages_df
    /\ outcomes_df' = IF pass = "outcomes" THEN pass_df.rows ELSE outcomes_df
    /\ pass_df' = NoFrame
    /\ inner' = [at |-> "idle"]
    /\ pc' = AfterPass(pass)
    /\ UNCHANGED <<now, entropy, uuid_count, total_leads, contacted_lead_ids, row,
                   drawn, faults, rerun>>

\* _save_to_database, _save_to_csv and the return of the result bundle
Save ==
    /\ pc = "save"
    /\ pc' = "done"
    /\ UNCHANGED <<now, entropy, uuid_count, total_leads, leads_df, contact_events_df,
                   contacted_lead_ids, funnel_stages_df, outcomes_df, row, inner, drawn,
                   pass_df, faults, rerun>>

IntroduceDataQualityIssuesLeads ==
    QualityBegin("leads") \/ QualityRule("leads") \/ QualityReturn("leads")

IntroduceDataQualityIssuesContacts ==
    QualityBegin("contacts") \/ QualityRule("contacts") \/ QualityReturn("contacts")

IntroduceDataQualityIssuesFunnel ==
    QualityBegin("funnel") \/ QualityRule("funnel") \/ QualityReturn("funnel")

IntroduceDataQualityIssuesOutcomes ==
    QualityBegin("outcomes") \/ QualityRule("outcomes") \/ QualityReturn("outcomes")

----------------------------------------------------------------------------
(* Specifications.  InitRun is the state after construction.  A stage is    *)
(* also run on its own, from the frames the stages before it can return.   *)

InitRun ==
    /\ pc = "generate_leads"
    /\ now \in NowTimes
    /\ entropy \in Entropies
    /\ uuid_count = 0
    /\ total_leads = MaxLeads
    /\ leads_df = <<>>
    /\ contact_events_df = <<>>
    /\ contacted_lead_ids = {}
    /\ funnel_stages_df = <<>>
    /\ outcomes_df = <<>>
    /\ row = 0
    /\ inner = [at |-> "idle"]
    /\ drawn = {}
    /\ pass_df = NoFrame
    /\ faults = 0
    /\ rerun = [run |-> 1, seeded |-> <<>>, first |-> <<>>]

\* the frames _generate_leads can return for n leads of one size, with a phone
LeadFrames(e, n) ==
    {[k \in 1 .. n |-> NewLead(uuid4(e, k), created[k], "Small", "phone")] :
        created \in [1 .. n -> CreatedTimes]}

\* the frames _add_test_group_logic can return for them
AssignedFrames(e, n) ==
    UNION {{add_test_group_logic(df, a) :
               a \in [1 .. Len(SelectSeq2(df, TRUE)) -> Groups]} :
           df \in LeadFrames(e, n)}

\* the run at the call of _generate_contact_events
InitContacts ==
    /\ pc = "contact_events"
    /\ now \in NowTimes
    /\ entropy = 1
    /\ uuid_count = MaxLeads
    /\ total_leads = MaxLeads
    /\ leads_df \in AssignedFrames(1, MaxLeads)
    /\ contact_events_df = <<>>
    /\ contacted_lead_ids = {}
    /\ funnel_stages_df = <<>>
    /\ outcomes_df = <<>>
    /\ row = 1
    /\ inner = [at |-> "idle"]
    /\ drawn = {}
    /\ pass_df = NoFrame
    /\ faults = 0
    /\ rerun = [run |-> 1, seeded |-> <<>>, first |-> <<>>]

NextGroup == GenerateLead \/ AddTestGroupLogic
SpecGroup == InitRun /\ [][NextGroup]_vars

\* the lead generation of two runs made with the same seed
NextRerun == GenerateLead \/ Rerun
SpecRerun == InitRun /\ [][NextRerun]_vars

NextContacts == ContactLead \/ ContactEvent
SpecContacts == InitContacts /\ [][NextContacts]_vars

\* the run at the call of _generate_funnel_stages; the contact events are no
\* input of the stages after it and are left out
InitFunnel ==
    /\ pc = "funnel_stages"
    /\ now \in NowTimes
    /\ entropy = 1
    /\ uuid_count = MaxLeads
    /\ total_leads = MaxLeads
    /\ leads_df \in AssignedFrames(1, MaxLeads)
    /\ contact_events_df = <<>>
    /\ contacted_lead_ids \in SUBSET {leads_df[k].lead_id : k \in 1 .. Len(leads_df)}
    /\ funnel_stages_df = <<>>
    /\ outcomes_df = <<>>
    /\ row = 1
    /\ inner = [at |-> "idle"]
    /\ drawn = {}
    /\ pass_df = NoFrame
    /\ faults = 0
    /\ rerun = [run |-> 1, seeded |-> <<>>, first |-> <<>>]

NextFunnel == FunnelLead \/ FunnelStage
SpecFunnel == InitFunnel /\ [][NextFunnel]_vars

NextOutcomes ==
    \/ FunnelLead \/ FunnelStage
    \/ OutcomesBegin \/ ConvertedOutcome \/ OutcomesLostBegin \/ LostOutcome
    \/ OutcomesReturn
SpecOutcomes == InitFunnel /\ [][NextOutcomes]_vars

\* the datasets the fault injection is run on: every lead is contacted once,
\* on the day of its creation; the lead of the first row walks the whole funnel
\* without delay and converts, the others stop after 'Contacted'; the lead of
\* the second row is formally lost when MinDaysWorked days have passed
EventsOfDataset(leads, first_id) ==
    [k \in 1 .. Len(leads) |->
        NewEvent(uuid4(1, first_id + k), leads[k], to_datetime(leads[k].created_at),
                 "Email", "No Response")]

StagesOfDataset(leads, first_id) ==
    [j \in 1 .. Len(funnel_walk) |->
        NewStage(uuid4(1, first_id + j), leads[1], j, to_datetime(leads[1].created_at))]
    \o [k \in 1 .. Len(leads) - 1 |->
           NewStage(uuid4(1, first_id + Len(funnel_walk) + k), leads[k + 1], 1,
                    to_datetime(leads[k + 1].created_at))]

OutcomesOfDataset(leads, stages, first_id, t) ==
    <<ConvertedRecord(uuid4(1, first_id + 1), leads[1], stages[Len(funnel_walk)], 100)>>
    \o (IF Len(leads) >= 2
            /\ plus_days(to_datetime(leads[2].created_at), MinDaysWorked) <= t
        THEN <<LostRecord(uuid4(1, first_id + 2), leads[2], MinDaysWorked)>>
        ELSE <<>>)

\* their leads: one created before the test start, the others at the test start
FaultFrames ==
    {f \in AssignedFrames(1, MaxLeads) :
        /\ to_datetime(f[1].created_at) = test_start_date - 1
        /\ \A k \in 2 .. Len(f) : to_datetime(f[k].created_at) = test_start_date}

\* the run at the call of the first fault injection pass
InitFaults ==
    /\ pc = "quality_issues_leads"
    /\ now \in NowTimes
    /\ entropy = 1
    /\ total_leads = MaxLeads
    /\ leads_df \in FaultFrames
    /\ contact_events_df = EventsOfDataset(leads_df, MaxLeads)
    /\ contacted_lead_ids = {leads_df[k].lead_id : k \in 1 .. Len(leads_df)}
    /\ funnel_stages_df = StagesOfDataset(leads_df, 2 * MaxLeads)
    /\ outcomes_df = OutcomesOfDataset(leads_df, funnel_stages_df,
                                       3 * MaxLeads + Len(funnel_walk) - 1, now)
    /\ uuid_count = 3 * MaxLeads + Len(funnel_walk) - 1 + Len(outcomes_df)
    /\ row = MaxLeads + 1
    /\ inner = [at |-> "idle"]
    /\ drawn = {<<leads_df[1].lead_id, funnel_walk[j]>> : j \in 1 .. Len(funnel_walk)}
               \cup {<<leads_df[k].lead_id, funnel_walk[j]>> :
                        k \in 2 .. Len(leads_df), j \in 1 .. 2}
    /\ pass_df = NoFrame
    /\ faults = 0
    /\ rerun = [run |-> 1, seeded |-> <<>>, first |-> <<>>]

NextFaults ==
    \/ IntroduceDataQualityIssuesLeads \/ IntroduceDataQualityIssuesContacts
    \/ IntroduceDataQualityIssuesFunnel \/ IntroduceDataQualityIssuesOutcomes
SpecFaults == InitFaults /\ [][NextFaults]_vars

\* the whole run
Init == InitRun
Next ==
    \/ GenerateLead \/ AddTestGroupLogic
    \/ ContactLead \/ ContactEvent
    \/ FunnelLead \/ FunnelStage
    \/ OutcomesBegin \/ ConvertedOutcome \/ OutcomesLostBegin \/ LostOutcome
    \/ OutcomesReturn
    \/ IntroduceDataQualityIssuesLeads \/ IntroduceDataQualityIssuesContacts
    \/ IntroduceDataQualityIssuesFunnel \/ IntroduceDataQualityIssuesOutcomes
    \/ Save
Spec == Init /\ [][Next]_vars

\* the lead draws the seed of a run of PipelineLeads leads can fix: leads of
\* one size, with a phone, created at the test start
PipelineDraws ==
    [1 .. PipelineLeads -> {<<test_start_date, "Small", "phone">>}]

\* the whole run of a generator of PipelineLeads leads, made with a seed that
\* an earlier run was made with: the seed fixes the lead draws
InitPipeline ==
    /\ pc = "generate_leads"
    /\ now \in NowTimes
    /\ entropy = NumEntropy
    /\ uuid_count = 0
    /\ total_leads = PipelineLeads
    /\ leads_df = <<>>
    /\ contact_events_df = <<>>
    /\ contacted_lead_ids = {}
    /\ funnel_stages_df = <<>>
    /\ outcomes_df = <<>>
    /\ row = 0
    /\ inner = [at |-> "idle"]
    /\ drawn = {}
    /\ pass_df = NoFrame
    /\ faults = 0
    /\ \E d \in PipelineDraws :
          rerun = [run |-> 2, seeded |-> d,
                   first |-> [k \in 1 .. PipelineLeads |->
                                 NewLead(uuid4(1, k), d[k][1], d[k][2], d[k][3])]]

SpecPipeline == InitPipeline /\ [][Next]_vars

----------------------------------------------------------------------------
(* Properties *)

LeadIds == {leads_df[k].lead_id : k \in 1 .. Len(leads_df)}

LeadOf(id) == FirstLead(leads_df, id)

StageIndex(stage_name) == CHOOSE j \in 1 .. Len(funnel_walk) : funnel_walk[j] = stage_name

HasStage(id, stage_name) ==
    \E k \in 1 .. Len(funnel_stages_df) :
        /\ funnel_stages_df[k].lead_id = id
        /\ funnel_stages_df[k].stage_name = stage_name

OutcomesOf(id) == {k \in 1 .. Len(outcomes_df) : outcomes_df[k].lead_id = id}

\* C1: for every lead, the stages that have a record are a gap-free prefix of
\* the walk: a stage with a record has a record of every earlier stage
C1_GapFreePrefix ==
    \A k \in 1 .. Len(funnel_stages_df) :
        \A j \in 1 .. StageIndex(funnel_stages_df[k].stage_name) - 1 :
            HasStage(funnel_stages_df[k].lead_id, funnel_walk[j])

\* C2: the walk of a lead stops at the first stage whose draw fails or whose
\* date is in the future: a stage that was drawn and has no record is the
\* last stage drawn for that lead
C2_WalkStopsAtFirstMiss ==
    \A d \in drawn :
        ~HasStage(d[1], d[2]) =>
            \A j \in StageIndex(d[2]) + 1 .. Len(funnel_walk) :
                /\ <<d[1], funnel_walk[j]>> \notin drawn
                /\ ~HasStage(d[1], funnel_walk[j])

\* C3: a second run with the same seed and population size returns the leads
\* of the first run, field for field, identifiers included
C3_SameSeedSameLeads ==
    (rerun.run = 2 /\ pc = "add_test_group") => leads_df = rerun.first

\* C4: after the group assignment every lead created before the test start
\* date has group control
C4_PreTestIsControl ==
    pc = "contact_events" =>
        \A k \in 1 .. Len(leads_df) :
            to_datetime(leads_df[k].created_at) < test_start_date
                => leads_df[k].group = "control"

C4_Witness ==
    /\ pc = "contact_events"
    /\ \E k \in 1 .. Len(leads_df) :
          /\ to_datetime(leads_df[k].created_at) < test_start_date
          /\ leads_df[k].group = "control"
    /\ \E k \in 1 .. Len(leads_df) : leads_df[k].group = "test"

\* C5: every converted outcome belongs to a lead with a Closed Won record in
\* the funnel stream, and its days-to-close is at least 1
C5_ConvertedHasClosedWon ==
    \A k \in 1 .. Len(outcomes_df) :
        outcomes_df[k].converted = 1 =>
            /\ HasStage(outcomes_df[k].lead_id, "Closed Won")
            /\ outcomes_df[k].days_to_close >= 1

\* a converted outcome whose Closed Won date is the creation day of the lead
C5_Witness ==
    \E k \in 1 .. Len(outcomes_df) :
        /\ outcomes_df[k].converted = 1
        /\ outcomes_df[k].outcome_date.day = LeadOf(outcomes_df[k].lead_id).created_at.day
        /\ outcomes_df[k].days_to_close = 1

\* C6: when the outcomes are returned, every lead with a Closed Won record
\* has exactly one converted outcome and no lead has more than one outcome
C6_OneOutcomePerLead ==
    pc = "quality_issues_leads" =>
        \A id \in LeadIds :
            /\ Cardinality(OutcomesOf(id)) <= 1
            /\ HasStage(id, "Closed Won") =>
                  \E k \in OutcomesOf(id) : outcomes_df[k].converted = 1

C6_Witness ==
    /\ pc = "quality_issues_leads"
    /\ \E k \in 1 .. Len(outcomes_df) : outcomes_df[k].converted = 1
    /\ \E k \in 1 .. Len(outcomes_df) : outcomes_df[k].converted = 0

\* C7: a lost outcome belongs to a lead with a funnel record and no Closed Won
\* record, has revenue 0, 30 to 120 days to close, the date of the creation of
\* the lead plus those days, not in the future; a lead with no funnel record
\* has no outcome
C7_LostOutcomes ==
    /\ \A k \in 1 .. Len(outcomes_df) :
          outcomes_df[k].converted # 1 =>
              LET o == outcomes_df[k]
                  lead_start == to_datetime(LeadOf(o.lead_id).created_at)
              IN /\ o.converted = 0
                 /\ o.revenue = 0
                 /\ \E j \in 1 .. Len(funnel_stages_df) : funnel_stages_df[j].lead_id = o.lead_id
                 /\ ~HasStage(o.lead_id, "Closed Won")
                 /\ o.days_to_close >= MinDaysWorked
                 /\ o.days_to_close <= MaxDaysWorked
                 /\ o.outcome_date = date(plus_days(lead_start, o.days_to_close))
                 /\ plus_days(lead_start, o.days_to_close) <= now
    /\ \A id \in LeadIds :
          (\A j \in 1 .. Len(funnel_stages_df) : funnel_stages_df[j].lead_id # id)
              => OutcomesOf(id) = {}

C7_Witness ==
    /\ \E k \in 1 .. Len(outcomes_df) : outcomes_df[k].converted = 0
    /\ \E id \in LeadIds :
          /\ \A j \in 1 .. Len(funnel_stages_df) : funnel_stages_df[j].lead_id # id
          /\ pc = "quality_issues_leads"

\* C8: no funnel stage record belongs to a lead outside the contacted-lead set
C8_StagesOnlyForContacted ==
    \A k \in 1 .. Len(funnel_stages_df) :
        funnel_stages_df[k].lead_id \in contacted_lead_ids

\* the walk is over, a lead was not contacted and another has stage records
C8_Witness ==
    /\ pc = "outcomes"
    /\ funnel_stages_df # <<>>
    /\ \E id \in LeadIds : id \notin contacted_lead_ids

\* C9: every contact event belongs to a lead of the population and is not
\* dated before the creation date of that lead
C9_EventsOfLeads ==
    \A k \in 1 .. Len(contact_events_df) :
        /\ contact_events_df[k].lead_id \in LeadIds
        /\ contact_events_df[k].event_date.day
               >= LeadOf(contact_events_df[k].lead_id).created_at.day

\* an event on the creation day of its lead and one on a later day
C9_Witness ==
    /\ \E k \in 1 .. Len(contact_events_df) :
          contact_events_df[k].event_date.day
              = LeadOf(contact_events_df[k].lead_id).created_at.day
    /\ \E k \in 1 .. Len(contact_events_df) :
          contact_events_df[k].event_date.day
              > LeadOf(contact_events_df[k].lead_id).created_at.day

SameIdentifiers(pass, rows, given) ==
    /\ Len(rows) = Len(given)
    /\ \A k \in 1 .. Len(given) :
          /\ rows[k].lead_id = given[k].lead_id
          /\ pass = "contacts" => rows[k].event_id = given[k].event_id
          /\ pass = "funnel" => rows[k].stage_id = given[k].stage_id
          /\ pass = "outcomes" => rows[k].outcome_id = given[k].outcome_id
          /\ rows[k].lead_id \in LeadIds

\* C10: in every step of a fault injection pass before its return, the frame
\* of the pass has as many records as the stream the pass was given, with the
\* identifier fields of every record unchanged and the lead of every record
\* in the leads stream, and the four streams of the caller are left as they are
C10_FaultPassKeepsIdentifiers ==
    [][\A j \in 1 .. Len(passes) :
          (pc = QualityPc(passes[j]) /\ pc' = pc) =>
              /\ SameIdentifiers(passes[j], pass_df'.rows, Stream(passes[j]))
              /\ UNCHANGED <<leads_df, contact_events_df, funnel_stages_df, outcomes_df>>]_vars

\* the outcomes pass has changed a record of its frame, after the passes
\* before it have changed records of theirs
C10_Witness ==
    /\ pc = "quality_issues_outcomes"
    /\ inner.at = "rule"
    /\ pass_df.rows # outcomes_df
    /\ faults = MaxFaults
    /\ \E k \in 1 .. Len(leads_df) : leads_df[k].region = NoneStr

\* the statements of generate_complete_dataset, in the order of the source
run_stages ==
    <<"generate_leads", "add_test_group", "contact_events", "funnel_stages", "outcomes",
      "quality_issues_leads", "quality_issues_contacts", "quality_issues_funnel",
      "quality_issues_outcomes", "save", "done">>

StageRank(p) == CHOOSE j \in 1 .. Len(run_stages) : run_stages[j] = p

\* the statements that build the stream of a pass
GeneratingPcs(pass) ==
    CASE pass = "leads" -> {"generate_leads", "add_test_group"}
      [] pass = "contacts" -> {"contact_events"}
      [] pass = "funnel" -> {"funnel_stages"}
      [] pass = "outcomes" -> {"outcomes"}

\* C11: every step of a run stays in its stage or goes on to the next stage
\* of the order lead generation, group assignment, contact events, funnel
\* stages, outcomes, the four fault passes, persistence; up to the end of the
\* outcome generation no row has been corrupted and no fault pass has a frame;
\* a stream changes only in the stage that builds it and in its own fault
\* pass, so that it is left as it is from its fault pass to the return
C11_FixedStageOrder ==
    [][/\ StageRank(pc') \in {StageRank(pc), StageRank(pc) + 1}
       /\ StageRank(pc') <= StageRank("outcomes") => (faults' = 0 /\ pass_df' = NoFrame)
       /\ \A j \in 1 .. Len(passes) :
             pc \notin GeneratingPcs(passes[j]) \cup {QualityPc(passes[j])} =>
                 Stream(passes[j])' = Stream(passes[j])]_vars

\* a run that has returned, with an outcome made from a funnel record that
\* the funnel pass has corrupted afterwards
C11_Witness ==
    /\ pc = "done"
    /\ faults = MaxSampled
    /\ outcomes_df # <<>>
    /\ \E k \in 1 .. Len(funnel_stages_df) :
          funnel_stages_df[k].stage_name \notin Range(funnel_walk)

\* C12: the stage dates of a lead accumulate along the walk: of two stage
\* records of a lead, the one of the later stage is not dated before the one
\* of the earlier stage
C12_StageDatesAccumulate ==
    \A a, b \in 1 .. Len(funnel_stages_df) :
        (/\ funnel_stages_df[a].lead_id = funnel_stages_df[b].lead_id
         /\ funnel_stages_df[a].stage_order < funnel_stages_df[b].stage_order)
            => funnel_stages_df[a].stage_date.day <= funnel_stages_df[b].stage_date.day

\* the frame given is a re-partition of the frame taken: the same leads, each
\* once, with the attributes they had, a group and an assignment date
Repartition(taken, given) ==
    /\ Len(given) = Len(taken)
    /\ \A k \in 1 .. Len(taken) :
          Cardinality({j \in 1 .. Len(given) : given[j].lead_id = taken[k].lead_id}) = 1
    /\ \A j \in 1 .. Len(given) :
          \E k \in 1 .. Len(taken) :
              /\ DOMAIN given[j] = DOMAIN taken[k] \cup {"group", "assigned_at"}
              /\ \A field \in DOMAIN taken[k] : given[j][field] = taken[k][field]
              /\ given[j].group \in {"control", "test"}
              /\ given[j].assigned_at = [day |-> taken[k].created_at.day]

\* C13: the frame the group assignment returns holds the leads it was given,
\* each once, with their attributes unchanged, a group control or test and an
\* assignment date that is the date part of the creation timestamp
C13_GroupAssignerRepartitions ==
    [][(pc = "add_test_group" /\ pc' = "contact_events")
          => Repartition(leads_df, leads_df')]_vars

\* the second lead generated is a pre-test lead and comes first in the frame
\* returned, before a test-period lead that was assigned to the test group
C13_Witness ==
    /\ pc = "contact_events"
    /\ Len(leads_df) = 2
    /\ leads_df[1].lead_id = uuid4(entropy, 2)
    /\ leads_df[1].group = "control"
    /\ leads_df[2].lead_id = uuid4(entropy, 1)
    /\ leads_df[2].group = "test"

\* C14: every funnel stage record has a stage name of the walk, never New or
\* Closed Lost, and as its order the index of the name in the walk counted
\* from zero plus 2 (Contacted 2, ..., Closed Won 6); a lead has at most one
\* record of a stage name
C14_StageOrderFromName ==
    /\ \A k \in 1 .. Len(funnel_stages_df) :
          /\ funnel_stages_df[k].stage_name \in Range(funnel_walk)
          /\ funnel_stages_df[k].stage_name \notin {"New", "Closed Lost"}
          /\ funnel_stages_df[k].stage_order
                 = (StageIndex(funnel_stages_df[k].stage_name) - 1) + 2
    /\ \A a, b \in 1 .. Len(funnel_stages_df) :
          (/\ funnel_stages_df[a].lead_id = funnel_stages_df[b].lead_id
           /\ funnel_stages_df[a].stage_name = funnel_stages_df[b].stage_name) => a = b

\* the walk is over and a lead has a record of every stage, from Contacted
\* with order 2 to Closed Won with order 6
C14_Witness ==
    /\ pc = "outcomes"
    /\ \E a, b \in 1 .. Len(funnel_stages_df) :
          /\ funnel_stages_df[a].lead_id = funnel_stages_df[b].lead_id
          /\ funnel_stages_df[a].stage_name = "Contacted"
          /\ funnel_stages_df[a].stage_order = 2
          /\ funnel_stages_df[b].stage_name = "Closed Won"
          /\ funnel_stages_df[b].stage_order = 6
          /\ \A j \in 1 .. Len(funnel_walk) :
                HasStage(funnel_stages_df[a].lead_id, funnel_walk[j])

\* C15: in the leads stream that the leads fault pass has returned, which is
\* the one saved and returned, every lead whose created_at, corrupted or not,
\* is before the test start date has group control
C15_GroupInvariantSurvivesFaults ==
    StageRank(pc) > StageRank("quality_issues_leads") =>
        \A k \in 1 .. Len(leads_df) :
            to_datetime(leads_df[k].created_at) < test_start_date
                => leads_df[k].group = "control"

\* the fault passes are over: a lead of the test group has a created_at of
\* the future dates, a lead created before the test start is in control
C15_Witness ==
    /\ pc = "save"
    /\ \E k \in 1 .. Len(leads_df) :
          /\ leads_df[k].created_at \in future_created_at
          /\ leads_df[k].group = "test"
    /\ \E k \in 1 .. Len(leads_df) :
          /\ to_datetime(leads_df[k].created_at) < test_start_date
          /\ leads_df[k].group = "control"
====
